---- MODULE Spec2Model ----
(***************************************************************************)
(* svg2png-many: conversion of a batch of SVG files to PNG through one     *)
(* PhantomJS instance with a bounded number of simultaneously open pages.  *)
(* The model follows src/src/svg2png-many.js: the two entry points         *)
(* (svg2PngFiles, svg2PngDir), the pool of convertMany (startWorker,       *)
(* processNext), the pipeline of one job (convert, saveBuffer) and the     *)
(* promises that connect them.  Every callback of the source is one        *)
(* action; the results of the collaborators (fs, phantom) are inputs.      *)
(***************************************************************************)
EXTENDS Integers, Sequences, FiniteSets, TLC

\* Bounds of the model.
MaxJobs == 2
MaxPages == 2
MaxPoolJobs == 3

VARIABLES
    top,          \* position of the entry point: "readdir", "creating", "converting", "settled"
    listing,      \* svg2PngDir: the entries fs.readdir will report
    fileMap,      \* sequence of [src, dst]: the keys of fileMap in Object.keys order
    size,         \* the size argument: requested width and height, 0 when not given
    svgDoc,       \* the root element the source files declare: width, height, viewBox
    pages,        \* the pages argument (poolCapacity)
    createCalls,  \* number of calls of phantom.create()
    phantomInstance, \* svg2PngFiles: TRUE once phantomInstance is assigned
    exitCalls,    \* number of calls of phantomInstance.exit()
    entry,        \* the promise returned by the entry point
    restWorkers,  \* convertMany: jobs not yet launched
    results,      \* convertMany: results
    errors,       \* convertMany: errors
    batch,        \* the promise returned by convertMany
    settleCalls,  \* number of calls of resolveAll / rejectAll
    restAtPush,   \* per job awaiting its continuation: restWorkers.length when it was recorded
    pc,           \* per job: position of its pipeline
    page,         \* per job: its render context
    read,         \* per job: its fs.readFile request
    outcome,      \* per job: what the worker's promise settled with
    ctx,          \* per job: the status of page.open, the root element in its page,
                  \* the value passed along the chain of lines 168-174, the
                  \* viewport, and the calls made
    written       \* destination paths written by fs.writeFile

vars == <<top, listing, fileMap, size, svgDoc, pages, createCalls, phantomInstance,
          exitCalls, entry, restWorkers, results, errors, batch, settleCalls,
          restAtPush, pc, page, read, outcome, ctx, written>>

poolVars == <<restWorkers, results, errors, batch, settleCalls, restAtPush>>
jobVars == <<pc, page, read, outcome, ctx, written>>
setupVars == <<listing, fileMap, size, svgDoc, pages, createCalls>>

----------------------------------------------------------------------------
\* Values

Min(a, b) == IF a <= b THEN a ELSE b
Max(a, b) == IF a >= b THEN a ELSE b

\* A promise is pending, or settled once with a value.
Pending == [state |-> "pending", value |-> [none |-> TRUE]]

\* resolve(v) / reject(v) of a promise: only the first call has an effect.
SettlePromise(p, state, value) ==
    IF p.state = "pending" THEN [state |-> state, value |-> value] ELSE p

\* Directory entries and paths: a stem and an extension under a directory.
Stems == {"a", "b"}
AllEntries ==
    << [name |-> "a", ext |-> "svg"], [name |-> "a", ext |-> "SVG"],
       [name |-> "a", ext |-> "txt"], [name |-> "b", ext |-> "svg"],
       [name |-> "b", ext |-> "SVG"], [name |-> "b", ext |-> "txt"] >>

SrcPath(f) == [dir |-> "src", name |-> f.name, ext |-> f.ext]
DstPath(f) == [dir |-> "dst", name |-> f.name, ext |-> "png"]

\* SVG_REGEX = /\.svg$/i
SVG_REGEX(f) == f.ext \in {"svg", "SVG"}

RECURSIVE Filter(_)
Filter(l) ==
    IF l = << >> THEN << >>
    ELSE IF SVG_REGEX(Head(l)) THEN <<Head(l)>> \o Filter(Tail(l))
    ELSE Filter(Tail(l))

\* svg2PngDir, lines 74-80: the fileMap built from the directory listing.
DirFileMap(l) ==
    LET files == Filter(l)
    IN  [i \in 1..Len(files) |-> [src |-> SrcPath(files[i]), dst |-> DstPath(files[i])]]

\* The listings of a source directory: at most MaxJobs distinct entries, in
\* directory order.
Listings ==
    {[i \in DOMAIN ix |-> AllEntries[ix[i]]] :
        ix \in {x \in UNION {[1..n -> DOMAIN AllEntries] : n \in 0..MaxJobs} :
                    \A i \in 1..(Len(x) - 1) : x[i] < x[i + 1]}}

\* The fileMap arguments of svg2PngFiles: at most MaxJobs distinct sources,
\* each with any destination.
SvgSources == Filter(AllEntries)
FileMaps ==
    UNION {{[i \in 1..n |-> [src |-> SrcPath(SvgSources[i]),
                             dst |-> DstPath([name |-> d[i]])]] :
                d \in [1..n -> Stems]} : n \in 0..Min(MaxJobs, Len(SvgSources))}

Capacities == (-1)..MaxPages

N == Len(fileMap)
\* The workers of convertMany exist once its executor has run.
Jobs == DOMAIN pc

AllSeq(n, v) == [i \in 1..n |-> v]

----------------------------------------------------------------------------
\* svg2PngFiles (lines 38-59)

\* Variant: exit() is called without testing phantomInstance.
closePhantomUnguarded(instance, calls) == calls + 1

\* closePhantom: phantomInstance.exit() when an instance exists.
closePhantom(instance, calls) == IF instance THEN calls + 1 ELSE calls

\* Variant: only the success handler calls closePhantom.
OnBatchResolvedOnly(state, instance, calls) ==
    IF state = "resolved" THEN IF instance THEN calls + 1 ELSE calls ELSE calls

\* The handlers of lines 52-58: both branches call closePhantom.
OnBatchSettled(state, instance, calls) == closePhantom(instance, calls)

----------------------------------------------------------------------------
\* convertMany (lines 93-125)

\* Variant: the splice takes one worker more than the capacity.
SpliceCountOffByOne(len, cap) == IF 0 >= (IF len <= cap + 1 THEN len ELSE cap + 1) THEN 0
                                 ELSE IF len <= cap + 1 THEN len ELSE cap + 1

\* Variant: a capacity below one is treated as one.
SpliceCountAtLeastOne(len, cap) ==
    IF len = 0 THEN 0 ELSE IF cap < 1 THEN 1 ELSE IF len <= cap THEN len ELSE cap

\* Variant: the splice removes two workers more than the capacity.
SpliceCountTwoMore(len, cap) ==
    IF cap + 2 <= 0 THEN 0 ELSE IF len <= cap + 2 THEN len ELSE cap + 2

\* restWorkers.splice(0, poolCapacity): the workers removed from the front.
SpliceCount(len, cap) == Max(0, Min(len, cap))

\* Variant: only the first of the spliced workers is started.
InitialWorkersFirstOnly(workers, cap) ==
    SubSeq(workers, 1, IF SpliceCount(Len(workers), cap) >= 1 THEN 1 ELSE 0)

\* The workers returned by the splice, started by forEach (lines 121-123).
InitialWorkers(workers, cap) == SubSeq(workers, 1, SpliceCount(Len(workers), cap))

\* Variant: the started workers are not removed from restWorkers.
AfterSpliceKeepsAll(workers, cap) == workers

\* restWorkers after the splice.
AfterSplice(workers, cap) ==
    SubSeq(workers, SpliceCount(Len(workers), cap) + 1, Len(workers))

\* Variant: the last pending worker is never launched.
CanLaunchNextButLast(rest, errs) == Len(rest) > 1

\* Variant: no pending worker is launched once a job has failed.
CanLaunchNextUnlessFailed(rest, errs) == Len(rest) > 0 /\ Len(errs) = 0

\* processNext, line 110: a pending worker is launched.
CanLaunchNext(rest, errs) == Len(rest) > 0

\* Variant: the batch is settled as soon as one job has failed.
ShouldSettleOnError(rest, res, errs, n) ==
    Len(errs) > 0 \/ (Len(rest) = 0 /\ Len(errs) + Len(res) >= n)

\* processNext, line 113: the batch is settled.
ShouldSettle(rest, res, errs, n) == Len(rest) = 0 /\ Len(errs) + Len(res) >= n

\* Variant: the batch is rejected only when no job succeeded.
BatchOutcomeNoResults(res, errs) ==
    IF Len(res) = 0 /\ Len(errs) > 0 THEN [state |-> "rejected", value |-> [list |-> errs]]
    ELSE [state |-> "resolved", value |-> [list |-> res]]

\* processNext, lines 114-118: rejectAll(errors) or resolveAll(results).
BatchOutcome(res, errs) ==
    IF Len(errs) > 0 THEN [state |-> "rejected", value |-> [list |-> errs]]
    ELSE [state |-> "resolved", value |-> [list |-> res]]

\* startWorker(worker): worker() calls convert, which calls instance.createPage()
\* and fileToBase64(srcPath) at once (line 148).
LaunchPc(old, js) == [j \in DOMAIN old |-> IF j \in js THEN "loading" ELSE old[j]]
LaunchPage(old, js) == [j \in DOMAIN old |-> IF j \in js THEN "requested" ELSE old[j]]
LaunchRead(old, js) == [j \in DOMAIN old |-> IF j \in js THEN "reading" ELSE old[j]]

Range(s) == {s[i] : i \in DOMAIN s}

----------------------------------------------------------------------------
\* convert (lines 147-191), saveBuffer (lines 127-139)

\* The rejection of a worker's promise: the error of the failed step, which
\* belongs to job j.
Failure(j, kind) == [ok |-> FALSE, value |-> [job |-> j, kind |-> kind]]

\* Variant: saveBuffer resolves with the source path.
SuccessWithSource(j) == [ok |-> TRUE, value |-> fileMap[j].src]

\* saveBuffer, line 136: resolve(dstPath).
Success(j) == [ok |-> TRUE, value |-> fileMap[j].dst]

\* No continuation of the job is queued.
NotRecorded == -1

\* A worker's promise that has not settled.
NoOutcome == [ok |-> FALSE, value |-> [none |-> TRUE]]

\* closePage of lines 150-154, called in both handlers of lines 181-189.
closePage(p) == IF p = "open" THEN "closed" ELSE p

\* The values of page.evaluate and of the size argument.  A Sizes object
\* holds a width and a height, 0 standing for a member that is missing or
\* falsy; null and {error: e} are the two other results of lines 261-263.
Sizes(w, h) == [tag |-> "sizes", width |-> w, height |-> h, error |-> ""]
Null == [tag |-> "null", width |-> 0, height |-> 0, error |-> ""]
ErrorResult(e) == [tag |-> "error", width |-> 0, height |-> 0, error |-> e]
NoValue == [tag |-> "none", width |-> 0, height |-> 0, error |-> ""]

\* The width and height attributes of the root element: missing, a
\* percentage, or a number (with or without the px unit).
Absent == [kind |-> "absent", n |-> 0]
Percent(n) == [kind |-> "percent", n |-> n]
Px(n) == [kind |-> "number", n |-> n]

\* el.viewBox.animVal of a root element without a viewBox attribute.
NoViewBox == [width |-> 0, height |-> 0]

\* The root element of a page in which no document was loaded.
NoElement == [width |-> Absent, height |-> Absent, viewBox |-> NoViewBox]

\* Lines 241-244: !isPercent && parseFloat(attribute); false and NaN are
\* both falsy and stand as 0.
AttrNumber(a) == IF a.kind = "number" THEN a.n ELSE 0

\* getSVGDimensions (lines 235-265) on the root element el.  The quotients
\* are exact for the documents and requests of the model.
getSVGDimensions(el) ==
    LET width == AttrNumber(el.width)
        height == AttrNumber(el.height)
        viewBoxWidth == el.viewBox.width
        viewBoxHeight == el.viewBox.height
    IN  IF width # 0 /\ height # 0 THEN Sizes(width, height)
        ELSE IF width # 0 /\ viewBoxHeight # 0
        THEN Sizes(width, (width * viewBoxHeight) \div viewBoxWidth)
        ELSE IF height # 0 /\ viewBoxWidth # 0
        THEN Sizes((height * viewBoxWidth) \div viewBoxHeight, height)
        ELSE Null

\* Variant: the attributes of the root element are left as they are.
setSVGDimensionsNoWrite(sizes, el) ==
    IF sizes.tag = "null" THEN [result |-> ErrorResult("TypeError"), el |-> el]
    ELSE [result |-> sizes, el |-> el]

\* Variant: a null argument is returned as it is.
setSVGDimensionsNullSafe(sizes, el) ==
    IF sizes.tag = "null" \/ (sizes.width = 0 /\ sizes.height = 0)
    THEN [result |-> sizes, el |-> el]
    ELSE [result |-> sizes,
          el |-> [el EXCEPT !.width = IF sizes.width # 0 THEN Px(sizes.width) ELSE Absent,
                            !.height = IF sizes.height # 0 THEN Px(sizes.height) ELSE Absent]]

\* setSVGDimensions (lines 273-302) on the root element el: the value returned
\* and the root element afterwards.  Reading a member of null throws, and the
\* catch of line 299 returns the error.
setSVGDimensions(sizes, el) ==
    IF sizes.tag = "null" THEN [result |-> ErrorResult("TypeError"), el |-> el]
    ELSE IF sizes.width = 0 /\ sizes.height = 0 THEN [result |-> sizes, el |-> el]
    ELSE [result |-> sizes,
          el |-> [el EXCEPT !.width = IF sizes.width # 0 THEN Px(sizes.width) ELSE Absent,
                            !.height = IF sizes.height # 0 THEN Px(sizes.height) ELSE Absent]]

\* Variant: no result rejects.
checkEvalErrorNever(result) == "next"

\* checkEvalError (lines 198-203): result && result.error rejects.
checkEvalError(result) ==
    IF result.tag # "null" /\ result.error # "" THEN "rejected" ELSE "next"

NextEval(step) ==
    CASE step = "eval1" -> "eval2" [] step = "eval2" -> "eval3" [] OTHER -> "viewport"

\* The three evaluations of lines 168-172 for a page whose state is c: the
\* function evaluated, on its argument.  threw: the function raised an
\* exception of its own, which its catch returns as {error}.
Evaluate(step, c, threw) ==
    IF threw THEN [result |-> ErrorResult("exception"), el |-> c.el]
    ELSE CASE step = "eval1" -> setSVGDimensions(size, c.el)
           [] step = "eval2" -> [result |-> getSVGDimensions(c.el), el |-> c.el]
           [] OTHER -> setSVGDimensions(c.dimensions, c.el)

\* Variant: every status is taken as a success.
IsSuccessAnyStatus(status) == TRUE

\* Line 157: status !== "success" throws.
IsSuccess(status) == status = "success"

\* The statuses page.open reports.
Statuses == {"success", "fail"}

\* Line 158-160: the error names srcPath and the status.
StatusFailure(j, status) ==
    [ok |-> FALSE,
     value |-> [job |-> j, kind |-> "status", src |-> fileMap[j].src, status |-> status]]

\* Line 200: Promise.reject(result.error), at the evaluation step.
EvalFailure(j, step, e) ==
    [ok |-> FALSE, value |-> [job |-> j, kind |-> step, error |-> e]]

\* The page of a job before page.open: nothing loaded, nothing called.
NoCtx ==
    [status |-> "", el |-> NoElement, dimensions |-> NoValue, viewportSize |-> NoValue,
     evaluations |-> 0, renders |-> 0, writes |-> 0]

\* The size arguments and the documents of the model.
RequestedSizes == {Sizes(w, h) : w \in {0, 50}, h \in {0, 100}}
Docs ==
    {[width |-> w, height |-> h, viewBox |-> v] :
        w \in {Absent, Percent(100), Px(200)},
        h \in {Absent, Percent(100), Px(100)},
        v \in {NoViewBox, [width |-> 10, height |-> 20]}}
PlainDoc == [width |-> Px(200), height |-> Px(100), viewBox |-> NoViewBox]

----------------------------------------------------------------------------
\* The state before the entry point was called: nothing created, no worker.
Idle ==
    /\ pages \in Capacities
    /\ phantomInstance = FALSE
    /\ exitCalls = 0
    /\ entry = Pending
    /\ restWorkers = << >>
    /\ results = << >>
    /\ errors = << >>
    /\ batch = Pending
    /\ settleCalls = 0
    /\ restAtPush = << >>
    /\ pc = << >>
    /\ page = << >>
    /\ read = << >>
    /\ outcome = << >>
    /\ ctx = << >>
    /\ written = {}

\* No size is requested and every source declares a width and a height.
PlainInput ==
    /\ size = Sizes(0, 0)
    /\ svgDoc = PlainDoc

\* svg2PngDir(srcDir, dstDir, size, pages) was called and fs.readdir is in
\* flight, or svg2PngFiles(fileMap, size, pages) was called and
\* phantom.create() is in flight.
Init ==
    /\ Idle
    /\ PlainInput
    /\ \/ /\ top = "readdir"
          /\ listing \in Listings
          /\ fileMap = << >>
          /\ createCalls = 0
       \/ /\ top = "creating"
          /\ listing = << >>
          /\ fileMap \in FileMaps
          /\ createCalls = 1

\* svg2PngDir, lines 70-73: fs.readdir reports an error.
ReaddirFail ==
    /\ top = "readdir"
    /\ top' = "settled"
    /\ entry' = SettlePromise(entry, "rejected", [error |-> "readdir"])
    /\ listing' = << >>
    /\ UNCHANGED <<fileMap, size, svgDoc, pages, createCalls, phantomInstance, exitCalls>>
    /\ UNCHANGED <<poolVars, jobVars>>

\* svg2PngDir, lines 74-83: the fileMap is built and svg2PngFiles is called,
\* which calls phantom.create().
ReaddirOk ==
    /\ top = "readdir"
    /\ top' = "creating"
    /\ fileMap' = DirFileMap(listing)
    /\ listing' = << >>
    /\ createCalls' = createCalls + 1
    /\ UNCHANGED <<size, svgDoc, pages, phantomInstance, exitCalls, entry>>
    /\ UNCHANGED <<poolVars, jobVars>>

\* svg2PngFiles, lines 55-58 after phantom.create() rejected.
CreateFail ==
    /\ top = "creating"
    /\ top' = "settled"
    /\ exitCalls' = OnBatchSettled("rejected", phantomInstance, exitCalls)
    /\ entry' = SettlePromise(entry, "rejected", [error |-> "create"])
    /\ UNCHANGED <<setupVars, phantomInstance>>
    /\ UNCHANGED <<poolVars, jobVars>>

\* svg2PngFiles, lines 47-51, and the executor of convertMany, lines 94-124.
CreateOk ==
    /\ top = "creating"
    /\ top' = "converting"
    /\ phantomInstance' = TRUE
    /\ LET workers == [j \in 1..N |-> j]
           first == Range(InitialWorkers(workers, pages))
       IN  /\ restWorkers' = AfterSplice(workers, pages)
           /\ pc' = LaunchPc(AllSeq(N, "pending"), first)
           /\ page' = LaunchPage(AllSeq(N, "none"), first)
           /\ read' = LaunchRead(AllSeq(N, "none"), first)
    /\ outcome' = AllSeq(N, NoOutcome)
    /\ ctx' = AllSeq(N, NoCtx)
    /\ restAtPush' = AllSeq(N, NotRecorded)
    /\ UNCHANGED <<setupVars, exitCalls, entry, results, errors, batch,
                   settleCalls, written>>

\* instance.createPage() resolves with a page (line 148).  The page is
\* created by the PhantomJS process whether or not Promise.all still waits
\* for it; with both values present, page.open(pageContent) is called.
CreatePageDone(j) ==
    /\ exitCalls = 0
    /\ page[j] = "requested"
    /\ page' = [page EXCEPT ![j] = "open"]
    /\ pc' = [pc EXCEPT ![j] = IF pc[j] = "loading" /\ read[j] = "ok"
                               THEN "opening" ELSE pc[j]]
    /\ UNCHANGED <<outcome, ctx>>
    /\ UNCHANGED <<top, setupVars, phantomInstance, exitCalls, entry, read, written>>
    /\ UNCHANGED poolVars

\* fileToBase64 settles (lines 209-220) while Promise.all listens; a rejection
\* rejects Promise.all at once, whatever the state of createPage.
ReadDone(j, ok) ==
    /\ pc[j] = "loading"
    /\ read[j] = "reading"
    /\ read' = [read EXCEPT ![j] = IF ok THEN "ok" ELSE "failed"]
    /\ IF pc[j] = "loading" /\ ~ok
       THEN /\ pc' = [pc EXCEPT ![j] = "rejected"]
            /\ outcome' = [outcome EXCEPT ![j] = Failure(j, "read")]
       ELSE IF pc[j] = "loading" /\ page[j] = "open"
       THEN /\ pc' = [pc EXCEPT ![j] = "opening"]
            /\ UNCHANGED outcome
       ELSE UNCHANGED <<pc, outcome>>
    /\ UNCHANGED <<top, setupVars, phantomInstance, exitCalls, entry, page, ctx, written>>
    /\ UNCHANGED poolVars

\* page.open settles (lines 155-168): the document is loaded in the page and
\* the status is tested; on success the first evaluation is requested.
OpenDone(j, status) ==
    /\ pc[j] = "opening"
    /\ IF IsSuccess(status)
       THEN /\ pc' = [pc EXCEPT ![j] = "eval1"]
            /\ ctx' = [ctx EXCEPT ![j].status = status, ![j].el = svgDoc]
            /\ UNCHANGED <<page, outcome>>
       ELSE /\ pc' = [pc EXCEPT ![j] = "rejected"]
            /\ ctx' = [ctx EXCEPT ![j].status = status]
            /\ page' = [page EXCEPT ![j] = closePage(page[j])]
            /\ outcome' = [outcome EXCEPT ![j] = StatusFailure(j, status)]
    /\ UNCHANGED <<top, setupVars, phantomInstance, exitCalls, entry, read, written>>
    /\ UNCHANGED poolVars

\* page.evaluate settles and checkEvalError inspects the result (lines 168-174).
EvalDone(j, threw) ==
    /\ pc[j] \in {"eval1", "eval2", "eval3"}
    /\ LET run == Evaluate(pc[j], ctx[j], threw)
       IN  /\ ctx' = [ctx EXCEPT ![j].el = run.el,
                                 ![j].dimensions = run.result,
                                 ![j].evaluations = @ + 1]
           /\ IF checkEvalError(run.result) = "rejected"
              THEN /\ pc' = [pc EXCEPT ![j] = "rejected"]
                   /\ page' = [page EXCEPT ![j] = closePage(page[j])]
                   /\ outcome' = [outcome EXCEPT ![j] =
                                     EvalFailure(j, pc[j], run.result.error)]
              ELSE /\ pc' = [pc EXCEPT ![j] = NextEval(pc[j])]
                   /\ UNCHANGED <<page, outcome>>
    /\ UNCHANGED <<top, setupVars, phantomInstance, exitCalls, entry, read, written>>
    /\ UNCHANGED poolVars

\* page.property('viewportSize', dimensions) settles with the dimensions the
\* gate of line 173 let through, and page.renderBase64 is called (lines 174-178).
ViewportDone(j) ==
    /\ pc[j] = "viewport"
    /\ pc' = [pc EXCEPT ![j] = "render"]
    /\ ctx' = [ctx EXCEPT ![j].viewportSize = ctx[j].dimensions,
                          ![j].renders = @ + 1]
    /\ UNCHANGED <<top, setupVars, phantomInstance, exitCalls, entry, page, read,
                   outcome, written>>
    /\ UNCHANGED poolVars

\* page.renderBase64 settles (lines 180-189); on success saveBuffer is called,
\* which calls fs.writeFile.
RenderDone(j, ok) ==
    /\ pc[j] = "render"
    /\ page' = [page EXCEPT ![j] = closePage(page[j])]
    /\ IF ok
       THEN /\ pc' = [pc EXCEPT ![j] = "saving"]
            /\ ctx' = [ctx EXCEPT ![j].writes = @ + 1]
            /\ UNCHANGED outcome
       ELSE /\ pc' = [pc EXCEPT ![j] = "rejected"]
            /\ outcome' = [outcome EXCEPT ![j] = Failure(j, "render")]
            /\ UNCHANGED ctx
    /\ UNCHANGED <<top, setupVars, phantomInstance, exitCalls, entry, read, written>>
    /\ UNCHANGED poolVars

\* fs.writeFile calls back (lines 130-137).
WriteDone(j, ok) ==
    /\ pc[j] = "saving"
    /\ IF ok
       THEN /\ pc' = [pc EXCEPT ![j] = "resolved"]
            /\ outcome' = [outcome EXCEPT ![j] = Success(j)]
            /\ written' = written \cup {fileMap[j].dst}
       ELSE /\ pc' = [pc EXCEPT ![j] = "rejected"]
            /\ outcome' = [outcome EXCEPT ![j] = Failure(j, "write")]
            /\ UNCHANGED written
    /\ UNCHANGED <<top, setupVars, phantomInstance, exitCalls, entry, page, read, ctx>>
    /\ UNCHANGED poolVars

\* startWorker, lines 103-107: the outcome is recorded.
Push(j) ==
    /\ pc[j] \in {"resolved", "rejected"}
    /\ pc' = [pc EXCEPT ![j] = "pushed"]
    /\ IF pc[j] = "resolved"
       THEN /\ results' = Append(results, outcome[j].value)
            /\ UNCHANGED errors
       ELSE /\ errors' = Append(errors, outcome[j].value)
            /\ UNCHANGED results
    /\ restAtPush' = [restAtPush EXCEPT ![j] = Len(restWorkers)]
    /\ UNCHANGED <<top, setupVars, phantomInstance, exitCalls, entry, restWorkers,
                   batch, settleCalls, page, read, outcome, ctx, written>>

\* processNext, lines 109-120, as the continuation of job j.
ProcessNext(j) ==
    /\ pc[j] = "pushed"
    /\ restAtPush' = [restAtPush EXCEPT ![j] = NotRecorded]
    /\ IF CanLaunchNext(restWorkers, errors)
       THEN LET nextWorker == restWorkers[Len(restWorkers)]
            IN  /\ restWorkers' = SubSeq(restWorkers, 1, Len(restWorkers) - 1)
                /\ pc' = LaunchPc([pc EXCEPT ![j] = "done"], {nextWorker})
                /\ page' = LaunchPage(page, {nextWorker})
                /\ read' = LaunchRead(read, {nextWorker})
                /\ UNCHANGED <<batch, settleCalls>>
       ELSE /\ pc' = [pc EXCEPT ![j] = "done"]
            /\ UNCHANGED <<restWorkers, page, read>>
            /\ IF ShouldSettle(restWorkers, results, errors, N)
               THEN /\ batch' = SettlePromise(batch, BatchOutcome(results, errors).state,
                                              BatchOutcome(results, errors).value)
                    /\ settleCalls' = settleCalls + 1
               ELSE UNCHANGED <<batch, settleCalls>>
    /\ UNCHANGED <<top, setupVars, phantomInstance, exitCalls, entry, results,
                   errors, outcome, ctx, written>>

\* svg2PngFiles, lines 52-58: the handlers of the promise of convertMany.
BatchSettled ==
    /\ top = "converting"
    /\ batch.state # "pending"
    /\ top' = "settled"
    /\ exitCalls' = OnBatchSettled(batch.state, phantomInstance, exitCalls)
    /\ entry' = SettlePromise(entry, batch.state, batch.value)
    /\ UNCHANGED <<setupVars, phantomInstance>>
    /\ UNCHANGED <<poolVars, jobVars>>

Next ==
    \/ ReaddirFail
    \/ ReaddirOk
    \/ CreateFail
    \/ CreateOk
    \/ \E j \in Jobs : CreatePageDone(j)
    \/ \E j \in Jobs, ok \in BOOLEAN : ReadDone(j, ok)
    \/ \E j \in Jobs, status \in Statuses : OpenDone(j, status)
    \/ \E j \in Jobs, threw \in BOOLEAN : EvalDone(j, threw)
    \/ \E j \in Jobs : ViewportDone(j)
    \/ \E j \in Jobs, ok \in BOOLEAN : RenderDone(j, ok)
    \/ \E j \in Jobs, ok \in BOOLEAN : WriteDone(j, ok)
    \/ \E j \in Jobs : Push(j)
    \/ \E j \in Jobs : ProcessNext(j)
    \/ BatchSettled

Spec == Init /\ [][Next]_vars

\* The progress properties are checked for the inputs below: the directory
\* listings that are a prefix of AllEntries, and the fileMaps svg2PngDir would
\* build from the first SVG files.  The destinations take no part in the
\* scheduling of the jobs.
IsPrefix(l, all) == Len(l) <= Len(all) /\ l = SubSeq(all, 1, Len(l))
LiveInit ==
    /\ Init
    /\ IsPrefix(listing, AllEntries)
    /\ \E n \in 0..Len(SvgSources) : fileMap = DirFileMap(SubSeq(SvgSources, 1, n))

\* The properties of the pool are checked with up to MaxPoolJobs jobs, for the
\* same restricted inputs (convertMany reads of a fileMap only its keys) and
\* for at most two slots, which is what it takes for two continuations to be
\* queued at once while a job is pending.
PoolCapacities == {-1, 0, 1, 2}
PoolInit ==
    /\ Idle
    /\ PlainInput
    /\ pages \in PoolCapacities
    /\ \/ /\ top = "readdir"
          /\ listing \in Listings
          /\ IsPrefix(listing, AllEntries)
          /\ fileMap = << >>
          /\ createCalls = 0
       \/ /\ top = "creating"
          /\ listing = << >>
          /\ \E n \in 0..Min(MaxPoolJobs, Len(SvgSources)) :
                 fileMap = DirFileMap(SubSeq(SvgSources, 1, n))
          /\ createCalls = 1

PoolSpec == PoolInit /\ [][Next]_vars

\* The handling of dimensions is checked for one source file and one slot,
\* with every size argument and every document of the model.
DimInit ==
    /\ Idle
    /\ pages = 1
    /\ size \in RequestedSizes
    /\ svgDoc \in Docs
    /\ \/ /\ top = "readdir"
          /\ listing = SubSeq(AllEntries, 1, 1)
          /\ fileMap = << >>
          /\ createCalls = 0
       \/ /\ top = "creating"
          /\ listing = << >>
          /\ fileMap = DirFileMap(SubSeq(AllEntries, 1, 1))
          /\ createCalls = 1

DimSpec == DimInit /\ [][Next]_vars

\* The event loop runs every callback that is due, and every request to a
\* collaborator is answered.
FairSpec == LiveInit /\ [][Next]_vars /\ WF_vars(Next)

----------------------------------------------------------------------------
\* State functions used by the properties

\* Render contexts created by instance.createPage and not yet closed.
OpenPages == {j \in Jobs : page[j] = "open"}

\* Jobs still in restWorkers, jobs launched and not yet recorded, jobs recorded.
PendingJobs == {j \in Jobs : pc[j] = "pending"}
RecordedJobs == {j \in Jobs : pc[j] \in {"pushed", "done"}}
ActiveJobs == Jobs \ (PendingJobs \cup RecordedJobs)

\* The promise returned by convert(instance, srcPath, size) has settled.
ConvertSettled(j) == pc[j] \in {"saving", "resolved", "rejected", "pushed", "done"}

\* The worker's promise has settled, as a failure or as a success.
FailedJobs == {j \in Jobs : pc[j] \in {"rejected", "pushed", "done"} /\ ~outcome[j].ok}
SucceededJobs == {j \in Jobs : pc[j] \in {"resolved", "pushed", "done"} /\ outcome[j].ok}

SettledCount == Len(results) + Len(errors)

Count(list, v) == Cardinality({i \in DOMAIN list : list[i] = v})
Destinations == {fileMap[j].dst : j \in DOMAIN fileMap}

IsSetupError(v) == "error" \in DOMAIN v

----------------------------------------------------------------------------
\* C1: with a capacity of at least 1, the number of pages created and not yet
\* closed never exceeds min(capacity, number of jobs), whatever the outcome of
\* each job.
C1_OpenPagesBounded ==
    pages >= 1 => Cardinality(OpenPages) <= Min(pages, N)

\* C2: whenever the pipeline of a job (convert) has settled, the page it
\* acquired has been closed; no settled pipeline leaves its page open.
C2_PageClosedWhenSettled ==
    \A j \in Jobs : ConvertSettled(j) => page[j] # "open"

\* C3: resolveAll / rejectAll is called, and the batch promise is settled, only
\* in states where every job is recorded: results.length + errors.length equals
\* the number of jobs and no job is pending or active.
C3_NoEarlySettlement ==
    (settleCalls > 0 \/ batch.state # "pending") =>
        /\ SettledCount = N
        /\ PendingJobs = {}
        /\ ActiveJobs = {}

\* C3 witness: the batch was rejected after a job failed, with another job
\* recorded as a success.
C3_Witness ==
    /\ batch.state = "rejected"
    /\ Len(results) >= 1
    /\ Len(errors) >= 1

\* C4 as stated: the settlement action of processNext is taken at most once.
C4_SettleCalledOnce == settleCalls <= 1

\* C4 amended: the settled count only grows and stops at the number of jobs,
\* the batch promise never changes once settled, and the settlement action of
\* processNext is taken at least once when every continuation has run and at
\* most min(capacity, number of jobs) times.
C4_SettlesOncePerBatch ==
    /\ [](pages >= 1 => settleCalls <= Min(pages, N))
    /\ []((Jobs # {} /\ \A j \in Jobs : pc[j] = "done") => settleCalls >= 1)
    /\ [][SettledCount <= SettledCount' /\ SettledCount' <= N]_vars
    /\ [][batch.state # "pending" => batch' = batch]_vars

\* C4 witness: two continuations ran after the last job was recorded and the
\* settlement action was taken twice.
C4_Witness ==
    /\ settleCalls = 2
    /\ batch.state # "pending"

\* C5: with a capacity of at least 1, once the engine has started the entry
\* point eventually settles, for every number of jobs including none.
C5_EventuallySettles ==
    (top = "converting" /\ pages >= 1) ~> (entry.state # "pending")

\* C6 as stated: if every job succeeded, a settled batch is resolved with N
\* entries whose set is the set of destinations, each destination once.
C6_EachDestinationOnce ==
    (batch.state # "pending" /\ SucceededJobs = Jobs) =>
        /\ batch.state = "resolved"
        /\ Len(batch.value.list) = N
        /\ Range(batch.value.list) = Destinations
        /\ \A d \in Destinations : Count(batch.value.list, d) = 1

\* C6 amended: if every job succeeded, a settled batch is resolved with N
\* entries whose set is the set of destinations, each destination as many
\* times as there are sources mapped to it.
C6_OneEntryPerJob ==
    (batch.state # "pending" /\ SucceededJobs = Jobs) =>
        /\ batch.state = "resolved"
        /\ Len(batch.value.list) = N
        /\ Range(batch.value.list) = Destinations
        /\ \A d \in Destinations :
               Count(batch.value.list, d) = Cardinality({j \in Jobs : fileMap[j].dst = d})

\* C6 witness: two jobs with the same destination succeeded and the batch is
\* resolved.
C6_Witness ==
    /\ batch.state = "resolved"
    /\ N = 2
    /\ fileMap[1].dst = fileMap[2].dst

\* C7: if some job failed, a settled batch (and a settled entry point) is
\* rejected, with a list holding one error per failed job and nothing else.
C7_RejectedWithFailures ==
    /\ (batch.state # "pending" /\ FailedJobs # {}) =>
          /\ batch.state = "rejected"
          /\ Len(batch.value.list) = Cardinality(FailedJobs)
          /\ \A i \in DOMAIN batch.value.list :
                 /\ batch.value.list[i] = outcome[batch.value.list[i].job].value
                 /\ batch.value.list[i].job \in FailedJobs
          /\ \A j \in FailedJobs : Count(batch.value.list, outcome[j].value) = 1
    /\ (entry.state # "pending" /\ FailedJobs # {}) => entry = batch

\* C7 witness: the entry point is rejected after a success was recorded before
\* a failure.
C7_Witness ==
    /\ entry.state = "rejected"
    /\ SucceededJobs # {}
    /\ FailedJobs # {}
    /\ \E j \in SucceededJobs, k \in FailedJobs : pc[j] = "done" /\ pc[k] = "done"

\* C8: with a capacity of at least 1, once a job has been recorded as a
\* failure every job is eventually recorded: the pending ones are launched and
\* the active ones continue.
C8_FailureCancelsNothing ==
    (pages >= 1 /\ errors # << >>) ~> (RecordedJobs = Jobs)

\* C8 witness: with one slot, the first job failed and the job that was
\* pending then ran to a recorded outcome.
C8_Witness ==
    /\ pages = 1
    /\ N = 2
    /\ errors # << >>
    /\ errors[1].job = 1
    /\ pc[2] \in {"pushed", "done"}

\* C9: phantom.create() is called once; exit() is called at most once, and
\* only when no job is pending or active; a settled entry point whose engine
\* was created has called exit() exactly once, on either branch.
C9_EngineReleasedOnce ==
    /\ createCalls <= 1
    /\ exitCalls <= 1
    /\ exitCalls = 1 => phantomInstance /\ PendingJobs = {} /\ ActiveJobs = {}
    /\ (entry.state # "pending" /\ phantomInstance) => exitCalls = 1
    /\ phantomInstance => createCalls = 1

\* C9 witness: the entry point is rejected with the errors of the jobs and the
\* engine has exited.
C9_Witness ==
    /\ entry.state = "rejected"
    /\ phantomInstance
    /\ exitCalls = 1

\* C10: when phantom.create() or fs.readdir fails, the entry point rejects with
\* that error, no job is launched, no page is created, no destination is
\* written, and exit() is not called.
C10_SetupFailureRunsNothing ==
    (top = "settled" /\ ~phantomInstance) =>
        /\ entry.state = "rejected"
        /\ IsSetupError(entry.value)
        /\ Jobs = {}
        /\ restWorkers = << >>
        /\ written = {}
        /\ exitCalls = 0
        /\ settleCalls = 0
        /\ batch.state = "pending"

\* C10 witness: phantom.create() failed for a fileMap that has jobs.
C10_Witness ==
    /\ top = "settled"
    /\ N >= 1
    /\ IsSetupError(entry.value)
    /\ entry.value.error = "create"

----------------------------------------------------------------------------
\* State functions of the pool

\* Position of a job in its life: pending, active, recorded.
Phase(p) == CASE p = "pending" -> 0 [] p \in {"pushed", "done"} -> 2 [] OTHER -> 1

\* Jobs whose worker was started by the step (pending before, loading after).
LaunchedByStep == {j \in Jobs : pc[j] = "pending" /\ pc'[j] = "loading"}

\* The step is the processNext continuation of job j.
IsContinuation(j) == pc[j] = "pushed" /\ pc'[j] = "done"

\* The step is the executor of convertMany.
IsStart == top = "creating" /\ top' = "converting"

\* C11: with a capacity of at least 1, the number of jobs launched and not yet
\* recorded in results or errors never exceeds the capacity.
C11_ActiveWithinCapacity ==
    pages >= 1 => Cardinality(ActiveJobs) <= pages

\* C11 witness: two jobs are active at once under a capacity of two.
C11_Witness ==
    /\ pages = 2
    /\ Cardinality(ActiveJobs) = 2

\* C12: every job is pending (in restWorkers, once), active or recorded, and
\* the three counts add up to N; a job only moves pending -> active ->
\* recorded, a worker is started only for a pending job, and every recorded
\* job has exactly one entry in results or errors.
C12_JobLifecycle ==
    /\ [](top \in {"converting", "settled"} /\ phantomInstance =>
            /\ Jobs = 1..N
            /\ Range(restWorkers) = PendingJobs
            /\ Len(restWorkers) = Cardinality(PendingJobs)
            /\ Cardinality(PendingJobs) + Cardinality(ActiveJobs) + SettledCount = N
            /\ SettledCount = Cardinality(RecordedJobs)
            /\ Len(errors) = Cardinality(RecordedJobs \cap FailedJobs)
            /\ \A j \in RecordedJobs \cap FailedJobs :
                   Cardinality({i \in DOMAIN errors : errors[i].job = j}) = 1)
    /\ [][\A j \in Jobs :
            /\ Phase(pc[j]) <= Phase(pc'[j])
            /\ Phase(pc'[j]) <= Phase(pc[j]) + 1
            /\ pc'[j] = "loading" => pc[j] \in {"pending", "loading"}]_vars

\* C12 witness: with one slot, the job popped from restWorkers was launched
\* after the first job was recorded, and both are recorded.
C12_Witness ==
    /\ pages = 1
    /\ N = 2
    /\ RecordedJobs = {1, 2}
    /\ restWorkers = << >>

\* C13 as stated: the continuation of a job that was recorded while
\* restWorkers was non-empty launches exactly one pending job.
C13_RefillAfterEverySettle ==
    [][\A j \in Jobs :
        (IsContinuation(j) /\ restAtPush[j] > 0) =>
            Cardinality(LaunchedByStep) = 1]_vars

\* C13 amended: a continuation that runs while restWorkers is non-empty
\* launches exactly one pending job, whatever the other active jobs do, and a
\* continuation that finds restWorkers empty launches none; once no
\* continuation is queued, the active count is min(C, N - settled count).
C13_EagerRefill ==
    /\ [][\A j \in Jobs :
            IsContinuation(j) =>
                /\ restWorkers # << >> =>
                      /\ Cardinality(LaunchedByStep) = 1
                      /\ Len(restWorkers') = Len(restWorkers) - 1
                /\ restWorkers = << >> => LaunchedByStep = {}]_vars
    /\ []((pages >= 1 /\ phantomInstance /\ \A j \in Jobs : pc[j] # "pushed") =>
            Cardinality(ActiveJobs) = Min(pages, N - SettledCount))

\* C13 witness: with one slot and two jobs, the first job is recorded, its
\* continuation has run, and the second job is active.
C13_Witness ==
    /\ pages = 1
    /\ N = 2
    /\ Jobs = {1, 2}
    /\ pc[1] = "done"
    /\ 2 \in ActiveJobs

\* C14: for a capacity of at least 1, the executor of convertMany starts
\* exactly min(C, N) workers and leaves the other N - min(C, N) pending.
C14_InitialLaunch ==
    [][(IsStart /\ pages >= 1) =>
          /\ Cardinality({j \in DOMAIN pc' : pc'[j] = "loading"}) = Min(pages, N)
          /\ Cardinality({j \in DOMAIN pc' : pc'[j] = "pending"}) = N - Min(pages, N)
          /\ Len(restWorkers') = N - Min(pages, N)
          /\ DOMAIN pc' = 1..N
          /\ results' = << >> /\ errors' = << >>]_vars

\* C14 witness: right after the executor, with a capacity of one and two
\* jobs, one job is loading and one is pending.
C14_Witness ==
    /\ pages = 1
    /\ N = 2
    /\ pc = <<"loading", "pending">>
    /\ page[1] = "requested"
    /\ read[1] = "reading"

\* C20: with a capacity of 0 or less and at least one job, no job is ever
\* launched, every job stays pending, the batch promise and the entry point
\* stay pending, and exit() is never called.
C20_NoCapacityNoProgress ==
    (pages <= 0 /\ phantomInstance /\ N >= 1) =>
        /\ PendingJobs = Jobs
        /\ Jobs = 1..N
        /\ Len(restWorkers) = N
        /\ batch.state = "pending"
        /\ settleCalls = 0
        /\ entry.state = "pending"
        /\ top = "converting"
        /\ exitCalls = 0

\* C20 witness: the executor of convertMany has run with a capacity of -1 and
\* two jobs.
C20_Witness ==
    /\ pages = -1
    /\ phantomInstance
    /\ N = 2
    /\ PendingJobs = {1, 2}

----------------------------------------------------------------------------
\* State functions of the pipeline of one job

\* The worker of job j was rejected at the step kind.
FailedAt(j, kind) == j \in FailedJobs /\ outcome[j].value.kind = kind

\* Nothing after page.open was done for job j: no evaluation, no viewport,
\* no render, no call of fs.writeFile.
NothingAfterOpen(j) ==
    /\ ctx[j].evaluations = 0
    /\ ctx[j].viewportSize = NoValue
    /\ ctx[j].renders = 0
    /\ ctx[j].writes = 0

\* C15: when page.open reported a status other than "success", the job is a
\* failure whose error names the source path and the status, its page is
\* closed, and nothing was evaluated, no viewport was set, nothing was
\* rendered and nothing was written for it.
C15_BadStatusFails ==
    \A j \in Jobs :
        /\ ctx[j].status \notin {"", "success"} =>
              /\ FailedAt(j, "status")
              /\ outcome[j].value.src = fileMap[j].src
              /\ outcome[j].value.status = ctx[j].status
              /\ NothingAfterOpen(j)
              /\ page[j] = "closed"
        /\ (j \in FailedJobs /\ "status" \in DOMAIN outcome[j].value) =>
              ctx[j].status \notin {"", "success"}

\* C15 witness: page.open reported "fail" for the first job, and the failure
\* is recorded in errors.
C15_Witness ==
    /\ Jobs # {}
    /\ ctx[1].status = "fail"
    /\ pc[1] = "done"
    /\ Len(errors) >= 1

\* The k-th evaluation of the chain of lines 168-172.
StepName(k) == CASE k = 1 -> "eval1" [] k = 2 -> "eval2" [] OTHER -> "eval3"

\* C16: when one of the three evaluations returned a value carrying an error
\* marker, the job is a failure carrying that error, rejected at that
\* evaluation: no later evaluation ran, no viewport was set, nothing was
\* rendered, nothing was written, and the page is closed.
C16_ErrorGate ==
    \A j \in Jobs :
        ctx[j].dimensions.tag = "error" =>
            /\ FailedAt(j, StepName(ctx[j].evaluations))
            /\ ctx[j].evaluations \in 1..3
            /\ outcome[j].value.error = ctx[j].dimensions.error
            /\ ctx[j].viewportSize = NoValue
            /\ ctx[j].renders = 0
            /\ ctx[j].writes = 0
            /\ page[j] = "closed"
            /\ written = {}

\* C16 witness: getSVGDimensions, the second evaluation, returned an error
\* marker after a size was set, and the failure is recorded.
C16_Witness ==
    /\ Jobs # {}
    /\ size = Sizes(50, 0)
    /\ ctx[1].evaluations = 2
    /\ ctx[1].dimensions.tag = "error"
    /\ pc[1] = "done"
    /\ Len(errors) = 1

\* Both a width and a height are requested.
BothRequested == size.width # 0 /\ size.height # 0

\* C17: when a width and a height are requested, whatever the document
\* declares, the measured dimensions and the viewport set before rendering
\* are exactly the requested ones, and no evaluation fails for want of a size.
C17_RequestedSizeIsViewport ==
    BothRequested =>
        \A j \in Jobs :
            /\ ctx[j].renders > 0 => ctx[j].viewportSize = size
            /\ ctx[j].viewportSize \in {NoValue, size}
            /\ ctx[j].dimensions \in {NoValue, size, ErrorResult("exception")}

\* C17 witness: 50 x 100 is requested for a document that declares
\* percentages and a 10 x 20 viewBox, and the page is being rendered.
C17_Witness ==
    /\ Jobs # {}
    /\ size = Sizes(50, 100)
    /\ svgDoc = [width |-> Percent(100), height |-> Percent(100),
                 viewBox |-> [width |-> 10, height |-> 20]]
    /\ pc[1] = "render"
    /\ ctx[1].viewportSize = Sizes(50, 100)

\* Exactly one of width and height is requested.
OneRequested == (size.width # 0) # (size.height # 0)

\* The width : height ratios the document determines: from its declared
\* numeric width and height, and from its viewBox.
IntrinsicRatios ==
    (IF AttrNumber(svgDoc.width) # 0 /\ AttrNumber(svgDoc.height) # 0
     THEN {<<AttrNumber(svgDoc.width), AttrNumber(svgDoc.height)>>} ELSE {})
    \cup
    (IF svgDoc.viewBox.width # 0 /\ svgDoc.viewBox.height # 0
     THEN {<<svgDoc.viewBox.width, svgDoc.viewBox.height>>} ELSE {})

\* The requested value kept, the other dimension derived from a ratio.
DerivedSizes ==
    {IF size.width # 0
     THEN Sizes(size.width, (size.width * r[2]) \div r[1])
     ELSE Sizes((size.height * r[1]) \div r[2], size.height) : r \in IntrinsicRatios}

\* C18: when exactly one of width and height is requested and the document
\* determines a ratio, the viewport keeps the requested value and derives the
\* other from that ratio, and the job does not fail for want of a size.
C18_MissingDimensionDerived ==
    (OneRequested /\ IntrinsicRatios # {}) =>
        \A j \in Jobs :
            /\ ctx[j].renders > 0 => ctx[j].viewportSize \in DerivedSizes
            /\ ctx[j].dimensions # Null
            /\ ~(FailedAt(j, "eval3") /\ outcome[j].value.error = "TypeError")

\* The part of C18 that the code satisfies: the same, for a document with a
\* viewBox.
C18_DerivedFromViewBox ==
    (OneRequested /\ svgDoc.viewBox.width # 0 /\ svgDoc.viewBox.height # 0) =>
        \A j \in Jobs :
            /\ ctx[j].renders > 0 =>
                  ctx[j].viewportSize =
                      IF size.width # 0
                      THEN Sizes(size.width,
                                 (size.width * svgDoc.viewBox.height) \div svgDoc.viewBox.width)
                      ELSE Sizes((size.height * svgDoc.viewBox.width) \div svgDoc.viewBox.height,
                                 size.height)
            /\ ctx[j].dimensions # Null
            /\ ~(FailedAt(j, "eval3") /\ outcome[j].value.error = "TypeError")

\* C19: a null returned by getSVGDimensions passes checkEvalError and is the
\* argument of the third evaluation, which returns an error marker: the job
\* fails there with its page closed, and no viewport is set, nothing is
\* rendered and nothing is written for a document without determinable size.
C19_NullFailsAtSetSize ==
    /\ [](\A j \in Jobs :
            /\ ctx[j].dimensions = Null =>
                  /\ pc[j] = "eval3"
                  /\ ctx[j].evaluations = 2
                  /\ page[j] = "open"
            /\ (ctx[j].evaluations >= 2 /\ getSVGDimensions(ctx[j].el) = Null) =>
                  /\ ctx[j].viewportSize = NoValue
                  /\ ctx[j].renders = 0
                  /\ ctx[j].writes = 0
                  /\ written = {}
                  /\ pc[j] \in {"eval3", "rejected", "pushed", "done"}
            /\ (FailedAt(j, "eval3") /\ outcome[j].value.error = "TypeError") =>
                  /\ getSVGDimensions(ctx[j].el) = Null
                  /\ ctx[j].evaluations = 3
                  /\ page[j] = "closed")
    /\ [][\A j \in Jobs :
            (ctx[j].dimensions = Null /\ pc'[j] # pc[j]) =>
                /\ pc'[j] = "rejected"
                /\ ctx'[j].dimensions.tag = "error"
                /\ outcome'[j] = EvalFailure(j, "eval3", ctx'[j].dimensions.error)
                /\ page'[j] = "closed"]_vars

\* C19 witness: no size is requested for a document without width, height
\* and viewBox; the third evaluation returned the TypeError and the failure
\* is recorded.
C19_Witness ==
    /\ Jobs # {}
    /\ size = Sizes(0, 0)
    /\ svgDoc = NoElement
    /\ pc[1] = "done"
    /\ FailedAt(1, "eval3")
    /\ outcome[1].value.error = "TypeError"
    /\ errors = <<outcome[1].value>>

====
